---- MODULE Spec2Model ----
(***************************************************************************)
(* The Collection of core-lib (src/core-lib/src/collection.ts): a store of *)
(* Work objects keyed by id and an array of ChangeLogEntry objects, with   *)
(* the injected providers idFactory and now.                               *)
(*                                                                         *)
(* Strings are sequences of one-character strings, so that trimming is     *)
(* computed.  An optional value (T | undefined) is a set with at most one  *)
(* element.  Objects live in a heap (reference -> object), so that the     *)
(* copies the code makes, and the ones it does not make, are visible.      *)
(***************************************************************************)
EXTENDS Integers, Sequences, FiniteSets, TLC

\* Bound of the model: the addWork / removeWork calls made on one Collection
\* when the caller passes every kind of input.
MaxCalls == 2

\* The calls made when the caller leaves the timestamps to the clock.
LongCalls == MaxCalls + 1

VARIABLES
    heap,        \* reference -> object, the objects reachable from the Collection
    works,       \* this.works: the Map, as its entries <<key, reference>> in insertion order
    changeLog,   \* this.changeLog: the array, as the references of its entries
    held,        \* the references of the objects the caller got from, or gave to, the last call
    last,        \* the caller's position: the call it has made last (operation, argument,
                 \* provider draws, error thrown, value returned), or "idle"
    accepted,    \* the accepted mutating calls (operation, id of the work), in call order
    calls        \* number of addWork / removeWork calls made

vars == <<heap, works, changeLog, held, last, accepted, calls>>

----------------------------------------------------------------------------
\* Values

Undefined == {}
Some(x) == {x}
Value(opt) == CHOOSE x \in opt : TRUE
\* a ?? b
Coalesce(opt, default) == IF opt = Undefined THEN default ELSE Value(opt)

Range(s) == {s[i] : i \in 1..Len(s)}

Whitespace == {" "}

RECURSIVE trimStart(_)
trimStart(s) == IF s # <<>> /\ Head(s) \in Whitespace THEN trimStart(Tail(s)) ELSE s

RECURSIVE trimEnd(_)
trimEnd(s) ==
    IF s # <<>> /\ s[Len(s)] \in Whitespace THEN trimEnd(SubSeq(s, 1, Len(s) - 1)) ELSE s

\* z.string().trim()
trim(s) == trimEnd(trimStart(s))

\* z.string().trim().min(1): the issue raised for one string field, if any
TooSmall == "String must contain at least 1 character(s)"

stringIssues(path, s) ==
    IF Len(trim(s)) < 1 THEN <<[path |-> path, message |-> TooSmall]>> ELSE <<>>

\* The value of type number that z.number() rejects.  The clock values are
\* positive, so this one is none of them.
NaN == -1

NotANumber == "Expected number, received nan"

\* z.number().optional(): the issue raised for one timestamp field, if any
numberIssues(path, opt) ==
    IF opt # Undefined /\ Value(opt) = NaN
    THEN <<[path |-> path, message |-> NotANumber]>> ELSE <<>>

workInputSchemaUntrimmed(input) ==
    LET issues ==
            (IF input.id = Undefined THEN <<>> ELSE stringIssues("id", Value(input.id)))
            \o stringIssues("displayTitle", input.displayTitle)
            \o stringIssues("mediaTypeKey", input.mediaTypeKey)
            \o numberIssues("createdAt", input.createdAt)
            \o numberIssues("updatedAt", input.updatedAt)
    IN  [success |-> issues = <<>>, issues |-> issues, data |-> input]

workInputSchemaRawId(input) ==
    LET issues ==
            (IF input.id = Undefined THEN <<>> ELSE stringIssues("id", Value(input.id)))
            \o stringIssues("displayTitle", input.displayTitle)
            \o stringIssues("mediaTypeKey", input.mediaTypeKey)
            \o numberIssues("createdAt", input.createdAt)
            \o numberIssues("updatedAt", input.updatedAt)
    IN  [success |-> issues = <<>>,
         issues  |-> issues,
         data    |-> [id           |-> input.id,
                      displayTitle |-> trim(input.displayTitle),
                      mediaTypeKey |-> trim(input.mediaTypeKey),
                      createdAt    |-> input.createdAt,
                      updatedAt    |-> input.updatedAt]]

\* workInputSchema.safeParse(input): the issues in the order of the schema's
\* keys, and the parsed data (a new object holding the trimmed strings).
workInputSchema(input) ==
    LET issues ==
            (IF input.id = Undefined THEN <<>> ELSE stringIssues("id", Value(input.id)))
            \o stringIssues("displayTitle", input.displayTitle)
            \o stringIssues("mediaTypeKey", input.mediaTypeKey)
            \o numberIssues("createdAt", input.createdAt)
            \o numberIssues("updatedAt", input.updatedAt)
    IN  [success |-> issues = <<>>,
         issues  |-> issues,
         data    |-> [id           |-> {trim(x) : x \in input.id},
                      displayTitle |-> trim(input.displayTitle),
                      mediaTypeKey |-> trim(input.mediaTypeKey),
                      createdAt    |-> input.createdAt,
                      updatedAt    |-> input.updatedAt]]

parseWorkInputLast(input) ==
    LET result == workInputSchema(input) IN
    IF ~result.success
    THEN [success |-> FALSE,
          error   |-> <<"Work input invalid for ", result.issues[Len(result.issues)].path,
                        ": ", result.issues[Len(result.issues)].message>>,
          data    |-> result.data]
    ELSE [success |-> TRUE, error |-> <<>>, data |-> result.data]

\* parseWorkInput: the data, or the error thrown for the first issue
parseWorkInput(input) ==
    LET result == workInputSchema(input) IN
    IF ~result.success
    THEN [success |-> FALSE,
          error   |-> <<"Work input invalid for ", result.issues[1].path, ": ",
                        result.issues[1].message>>,
          data    |-> result.data]
    ELSE [success |-> TRUE, error |-> <<>>, data |-> result.data]

----------------------------------------------------------------------------
\* The heap

\* The references an object holds.
Children(obj) ==
    IF "items" \in DOMAIN obj THEN Range(obj.items)
    ELSE IF "payloadJson" \in DOMAIN obj THEN {obj.payloadJson}
    ELSE IF "work" \in DOMAIN obj THEN {obj.work}
    ELSE {}

Step(h, rs) == rs \cup UNION {Children(h[r]) : r \in rs \cap DOMAIN h}

\* Everything reachable from rs: an array of entries is four levels deep.
Reach(h, rs) == Step(h, Step(h, Step(h, Step(h, rs))))

\* The object at r with every reference in it replaced by the object it names.
RECURSIVE Deref(_, _)
Deref(h, r) ==
    LET obj == h[r] IN
    IF "items" \in DOMAIN obj
    THEN [i \in 1..Len(obj.items) |-> Deref(h, obj.items[i])]
    ELSE IF "payloadJson" \in DOMAIN obj
    THEN [obj EXCEPT !.payloadJson = Deref(h, obj.payloadJson)]
    ELSE IF "work" \in DOMAIN obj
    THEN [obj EXCEPT !.work = Deref(h, obj.work)]
    ELSE obj

Restrict(h, rs) == [r \in DOMAIN h \cap rs |-> h[r]]

----------------------------------------------------------------------------
\* The Map this.works, as a sequence of entries in insertion order

mapGet(entries, key) == {entries[i].ref : i \in {j \in 1..Len(entries) : entries[j].key = key}}

mapHasNever(entries, key) == FALSE

mapHasFirst(entries, key) == entries # <<>> /\ entries[1].key = key

mapHas(entries, key) == \E i \in 1..Len(entries) : entries[i].key = key

mapSetFront(entries, key, ref) ==
    <<[key |-> key, ref |-> ref]>> \o SelectSeq(entries, LAMBDA e : e.key # key)

mapSet(entries, key, ref) ==
    IF mapHas(entries, key)
    THEN [i \in 1..Len(entries) |->
            IF entries[i].key = key THEN [key |-> key, ref |-> ref] ELSE entries[i]]
    ELSE Append(entries, [key |-> key, ref |-> ref])

mapDeleteKeep(entries, key) == entries

mapDelete(entries, key) == SelectSeq(entries, LAMBDA e : e.key # key)

mapValues(entries) == [i \in 1..Len(entries) |-> entries[i].ref]

----------------------------------------------------------------------------
\* One call in progress: the Collection's fields, the objects allocated so
\* far, what the providers returned so far, the error thrown, the value of
\* the last expression evaluated and the value returned.  An operation that
\* calls a provider yields one machine for each thing the provider may do.

Machine(avoid) ==
    [heap |-> heap, works |-> works, changeLog |-> changeLog, avoid |-> avoid,
     idDraws |-> <<>>, nowDraws |-> <<>>, thrown |-> Undefined, value |-> 0,
     ret |-> Undefined, returned |-> FALSE]

Failed(m) == m.thrown # Undefined

throw(m, error) == [m EXCEPT !.thrown = Some(error)]

return(m, ref) == [m EXCEPT !.ret = Some(ref), !.returned = TRUE]

\* ms; f: an error thrown ends the call, otherwise f goes on
Bind(ms, f(_)) == UNION {IF Failed(m) THEN {m} ELSE f(m) : m \in ms}

Used(m) == DOMAIN m.heap \cup m.avoid

Fresh(m) == CHOOSE r \in 1..(Cardinality(Used(m)) + 1) :
                /\ r \notin Used(m)
                /\ \A q \in 1..(r - 1) : q \in Used(m)

\* a new object
alloc(m, obj) ==
    LET r == Fresh(m) IN [m EXCEPT !.heap = (r :> obj) @@ m.heap, !.value = r]

\* the ids idFactory returns, and the values now returns
IdValues == {<<"a">>, <<"b">>}

TimeValues == {1, 2}

ProviderError == <<"provider error">>

\* one call of a provider: a value, or an error thrown
Outcomes(values, none) ==
    {[throws |-> FALSE, value |-> v] : v \in values} \cup {[throws |-> TRUE, value |-> none]}

callIdFactoryDefault(m) == {[m EXCEPT !.value = v] : v \in IdValues}

\* this.idFactory()
callIdFactory(m) ==
    {[m EXCEPT !.idDraws = Append(@, o),
               !.thrown = IF o.throws THEN Some(ProviderError) ELSE @,
               !.value = o.value] : o \in Outcomes(IdValues, <<>>)}

\* this.now()
callNow(m) ==
    {[m EXCEPT !.nowDraws = Append(@, o),
               !.thrown = IF o.throws THEN Some(ProviderError) ELSE @,
               !.value = o.value] : o \in Outcomes(TimeValues, 0)}

cloneWorkAlias(m, ref) == [m EXCEPT !.value = ref]

\* cloneWork: ({ ...work })
cloneWork(m, ref) == alloc(m, m.heap[ref])

\* clonePayload: structuredClone / JSON round trip of { work } or { workId, work }
clonePayload(m, ref) ==
    LET m1 == alloc(m, m.heap[m.heap[ref].work])
    IN  alloc(m1, [m.heap[ref] EXCEPT !.work = m1.value])

\* cloneChangeLogEntry: ({ ...entry, payloadJson: clonePayload(entry.payloadJson) })
cloneChangeLogEntry(m, ref) ==
    LET m1 == clonePayload(m, m.heap[ref].payloadJson)
    IN  alloc(m1, [m.heap[ref] EXCEPT !.payloadJson = m1.value])

pushNone(m, entry) == m

pushFront(m, entry) == [m EXCEPT !.changeLog = <<entry>> \o @]

\* this.changeLog.push(entry)
push(m, entry) == [m EXCEPT !.changeLog = Append(@, entry)]

recordChangeTwoIds(m, opType, payloadJson) ==
    Bind(callIdFactory(m), LAMBDA m0 :
    Bind(callIdFactory(m0), LAMBDA m1 :
    Bind(callNow(m1), LAMBDA m2 :
        LET m3 == alloc(m2, [id |-> m1.value, timestamp |-> m2.value,
                             opType |-> opType, payloadJson |-> payloadJson])
        IN  {push(m3, m3.value)})))

\* recordChange: a new entry, its id and timestamp drawn from the providers,
\* pushed on this.changeLog
recordChange(m, opType, payloadJson) ==
    Bind(callIdFactory(m), LAMBDA m1 :
    Bind(callNow(m1), LAMBDA m2 :
        LET m3 == alloc(m2, [id |-> m1.value, timestamp |-> m2.value,
                             opType |-> opType, payloadJson |-> payloadJson])
        IN  {push(m3, m3.value)}))

AlreadyExists(id) == <<"Work with id ">> \o id \o <<" already exists.">>

DoesNotExist(id) == <<"Work with id ">> \o id \o <<" does not exist.">>

newWorkClockFallback(parsed, id, timestamp) ==
    [id           |-> id,
     displayTitle |-> parsed.displayTitle,
     mediaTypeKey |-> parsed.mediaTypeKey,
     createdAt    |-> Coalesce(parsed.createdAt, timestamp),
     updatedAt    |-> Coalesce(parsed.updatedAt, timestamp)]

\* the Work addWork builds from the parsed input, the id and the clock value
newWork(parsed, id, timestamp) ==
    [id           |-> id,
     displayTitle |-> parsed.displayTitle,
     mediaTypeKey |-> parsed.mediaTypeKey,
     createdAt    |-> Coalesce(parsed.createdAt, timestamp),
     updatedAt    |-> Coalesce(parsed.updatedAt, Coalesce(parsed.createdAt, timestamp))]

\* addWork from this.works.set on: store, record, return a copy
storeWork(m, obj) ==
    LET m3 == alloc(m, obj)
        work == m3.value
        m4 == [m3 EXCEPT !.works = mapSet(@, obj.id, work)]
        m5 == cloneWork(m4, work)
        m6 == alloc(m5, [work |-> m5.value])
    IN  Bind(recordChange(m6, "work.create", m6.value), LAMBDA m7 :
            LET m8 == cloneWork(m7, work) IN {return(m8, m8.value)})

\* addWork from the duplicate check on
addWorkWithId(m, parsed, id) ==
    IF mapHas(m.works, id) THEN {throw(m, AlreadyExists(id))}
    ELSE Bind(callNow(m), LAMBDA m2 : storeWork(m2, newWork(parsed, id, m2.value)))

addWorkDrawFirst(m, inputRef) ==
    LET p == parseWorkInput(m.heap[inputRef]) IN
    Bind(IF m.heap[inputRef].id = Undefined THEN callIdFactory(m) ELSE {m},
         LAMBDA m1 :
            IF ~p.success THEN {throw(m1, p.error)}
            ELSE addWorkWithId(m1, p.data,
                    IF p.data.id = Undefined THEN m1.value ELSE Value(p.data.id)))

\* Collection.addWork(input), input being the object at inputRef
addWork(m, inputRef) ==
    LET p == parseWorkInput(m.heap[inputRef]) IN
    IF ~p.success THEN {throw(m, p.error)}
    ELSE Bind(IF p.data.id = Undefined THEN callIdFactory(m)
              ELSE {[m EXCEPT !.value = Value(p.data.id)]},
              LAMBDA m1 : addWorkWithId(m1, p.data, m1.value))

\* removeWork from this.works.delete on: delete, record, return a copy
deleteWork(m, id, existing) ==
    LET m1 == [m EXCEPT !.works = mapDelete(@, id)]
        m2 == cloneWork(m1, existing)
        m3 == alloc(m2, [workId |-> id, work |-> m2.value])
    IN  Bind(recordChange(m3, "work.remove", m3.value), LAMBDA m4 :
            LET m5 == cloneWork(m4, existing) IN {return(m5, m5.value)})

removeWorkEager(m, id) ==
    Bind(callNow(m), LAMBDA m1 :
        LET found == mapGet(m1.works, id) IN
        IF found = Undefined THEN {throw(m1, DoesNotExist(id))}
        ELSE deleteWork(m1, id, Value(found)))

\* Collection.removeWork(id)
removeWork(m, id) ==
    LET found == mapGet(m.works, id) IN
    IF found = Undefined THEN {throw(m, DoesNotExist(id))}
    ELSE deleteWork(m, id, Value(found))

getWorkTake(m, id) ==
    LET found == mapGet(m.works, id) IN
    IF found = Undefined THEN [m EXCEPT !.returned = TRUE]
    ELSE LET m1 == cloneWork(m, Value(found))
         IN  return([m1 EXCEPT !.works = mapDelete(@, id)], m1.value)

\* Collection.getWork(id)
getWork(m, id) ==
    LET found == mapGet(m.works, id) IN
    IF found = Undefined THEN [m EXCEPT !.returned = TRUE]
    ELSE LET m1 == cloneWork(m, Value(found)) IN return(m1, m1.value)

\* Array.from(refs, cloneWork), left to right: the machine after the copies,
\* its value being the sequence of their references
RECURSIVE cloneWorks(_, _, _)
cloneWorks(m, refs, out) ==
    IF refs = <<>> THEN [m EXCEPT !.value = out]
    ELSE LET m1 == cloneWork(m, Head(refs))
         IN  cloneWorks(m1, Tail(refs), Append(out, m1.value))

\* refs.map(cloneChangeLogEntry)
RECURSIVE cloneEntries(_, _, _)
cloneEntries(m, refs, out) ==
    IF refs = <<>> THEN [m EXCEPT !.value = out]
    ELSE LET m1 == cloneChangeLogEntry(m, Head(refs))
         IN  cloneEntries(m1, Tail(refs), Append(out, m1.value))

\* Collection.listWorks()
listWorks(m) ==
    LET m1 == cloneWorks(m, mapValues(m.works), <<>>)
        m2 == alloc(m1, [items |-> m1.value])
    IN  return(m2, m2.value)

\* Collection.getChangeLog()
getChangeLog(m) ==
    LET m1 == cloneEntries(m, m.changeLog, <<>>)
        m2 == alloc(m1, [items |-> m1.value])
    IN  return(m2, m2.value)

----------------------------------------------------------------------------
\* What the caller passes

Blank == <<" ">>

InputIds == {Undefined, Some(<<"a">>), Some(<<" ", "a">>), Some(Blank)}

Titles == {<<" ", "t", " ">>, Blank}

MediaTypeKeys == {<<"m">>, Blank}

InputTimes == {Undefined, Some(NaN)} \cup {Some(t) : t \in TimeValues}

WorkInputs ==
    [id : InputIds, displayTitle : Titles, mediaTypeKey : MediaTypeKeys,
     createdAt : InputTimes, updatedAt : InputTimes]

\* the inputs that leave the timestamps to the clock
PlainInputs == {input \in WorkInputs : input.createdAt = Undefined /\ input.updatedAt = Undefined}

\* the inputs that pass validation and leave the timestamps to the clock
OrderInputs == {input \in PlainInputs : parseWorkInput(input).success}

\* the ids given to removeWork and getWork
LookupIds == IdValues \cup {<<" ", "a">>}

----------------------------------------------------------------------------
\* The state after construction, and the calls

Idle ==
    [op |-> "idle", arg |-> <<>>, thrown |-> Undefined, returned |-> FALSE,
     result |-> Undefined, idDraws |-> <<>>, nowDraws |-> <<>>]

Init ==
    /\ heap = <<>>
    /\ works = <<>>
    /\ changeLog = <<>>
    /\ held = {}
    /\ last = Idle
    /\ accepted = <<>>
    /\ calls = 0

Roots(m) == Range(mapValues(m.works)) \cup Range(m.changeLog)

Mutating == {"addWork", "removeWork"}

\* The call has ended in machine m: the Collection keeps what it reaches, the
\* caller what was returned to it and what it passed in.
Finish(m, op, arg, given) ==
    /\ heap' = Restrict(m.heap, Reach(m.heap, Roots(m)))
    /\ works' = m.works
    /\ changeLog' = m.changeLog
    /\ held' = Reach(m.heap, m.ret \cup given)
    /\ last' = [op |-> op, arg |-> arg, thrown |-> m.thrown, returned |-> m.returned,
                result |-> {Deref(m.heap, r) : r \in m.ret},
                idDraws |-> m.idDraws, nowDraws |-> m.nowDraws]
    /\ accepted' = IF op \in Mutating /\ ~Failed(m)
                   THEN Append(accepted, [op |-> op, id |-> m.heap[Value(m.ret)].id])
                   ELSE accepted
    /\ calls' = IF op \in Mutating THEN calls + 1 ELSE calls

AddWork(inputs, bound) ==
    /\ last.op = "idle"
    /\ calls < bound
    /\ \E input \in inputs :
          LET m0 == alloc(Machine(held), input)
          IN  \E m \in addWork(m0, m0.value) : Finish(m, "addWork", input, {m0.value})

RemoveWork(bound) ==
    /\ last.op = "idle"
    /\ calls < bound
    /\ \E id \in LookupIds :
          \E m \in removeWork(Machine(held), id) : Finish(m, "removeWork", id, {})

GetWork ==
    /\ last.op = "idle"
    /\ \E id \in LookupIds : Finish(getWork(Machine(held), id), "getWork", id, {})

ListWorks ==
    /\ last.op = "idle"
    /\ Finish(listWorks(Machine(held)), "listWorks", <<>>, {})

GetChangeLog ==
    /\ last.op = "idle"
    /\ Finish(getChangeLog(Machine(held)), "getChangeLog", <<>>, {})

\* what a caller's assignment to a field of an object does to the object
Assigned(obj) ==
    IF "items" \in DOMAIN obj THEN [obj EXCEPT !.items = <<>>]
    ELSE IF "opType" \in DOMAIN obj THEN [obj EXCEPT !.opType = "changed"]
    ELSE IF "workId" \in DOMAIN obj THEN [obj EXCEPT !.workId = <<"c">>]
    ELSE IF "displayTitle" \in DOMAIN obj THEN [obj EXCEPT !.displayTitle = <<"c">>]
    ELSE obj

\* The caller assigns to a field of an object the last call gave it.
MutateHeld ==
    /\ last.op \notin {"idle", "mutate"}
    /\ \E r \in held :
          /\ heap' = IF r \in DOMAIN heap THEN [heap EXCEPT ![r] = Assigned(@)] ELSE heap
          /\ last' = [last EXCEPT !.op = "mutate"]
          /\ UNCHANGED <<works, changeLog, held, accepted, calls>>

\* The caller drops what the last call gave it and goes on.
Continue ==
    /\ last.op # "idle"
    /\ last' = Idle
    /\ held' = {}
    /\ UNCHANGED <<heap, works, changeLog, accepted, calls>>

Next ==
    \/ AddWork(WorkInputs, MaxCalls)
    \/ RemoveWork(MaxCalls)
    \/ GetWork
    \/ ListWorks
    \/ GetChangeLog
    \/ MutateHeld
    \/ Continue

Spec == Init /\ [][Next]_vars

\* Longer runs, of calls that pass no timestamps.
NextLong ==
    \/ AddWork(PlainInputs, LongCalls)
    \/ RemoveWork(LongCalls)
    \/ GetWork
    \/ ListWorks
    \/ GetChangeLog
    \/ MutateHeld
    \/ Continue

SpecLong == Init /\ [][NextLong]_vars

\* The calls that fill and empty the store, and listWorks().
OrderCalls == MaxCalls + 2

NextOrder ==
    \/ AddWork(OrderInputs, OrderCalls)
    \/ RemoveWork(OrderCalls)
    \/ ListWorks
    \/ Continue

SpecOrder == Init /\ [][NextOrder]_vars

----------------------------------------------------------------------------
\* What the Collection holds: the works of this.works, in the order of the
\* Map, and the entries of this.changeLog with their payloads.  These are the
\* values listWorks(), getChangeLog() and getWork(id) copy.

ListView == [i \in 1..Len(works) |-> heap[works[i].ref]]

LogView == [i \in 1..Len(changeLog) |-> Deref(heap, changeLog[i])]

GetView(id) == {heap[r] : r \in mapGet(works, id)}

\* what the last read returned is what the Collection holds
ReadsShowViews ==
    /\ last.op = "listWorks" => last.result = Some(ListView)
    /\ last.op = "getChangeLog" => last.result = Some(LogView)
    /\ last.op = "getWork" => last.result = GetView(last.arg)

StoredIds == {ListView[i].id : i \in 1..Len(ListView)}

IsPrefix(s, t) == Len(s) <= Len(t) /\ SubSeq(t, 1, Len(s)) = s

\* the step is a call of op made by the idle caller
Called(op) == last.op = "idle" /\ last'.op = op

OpTypeOf(op) == IF op = "addWork" THEN "work.create" ELSE "work.remove"

\* the id addWork works with: the parsed id of the input, or the id drawn
ResolvedId(l) ==
    LET p == parseWorkInput(l.arg) IN
    IF ~p.success THEN {}
    ELSE IF p.data.id # Undefined THEN p.data.id
    ELSE {l.idDraws[i].value : i \in {j \in {1} \cap DOMAIN l.idDraws : ~l.idDraws[j].throws}}

\* the ids of the accepted addWork calls
UsedIds == {accepted[k].id : k \in {j \in 1..Len(accepted) : accepted[j].op = "addWork"}}

Distinct(ws) == \A i, j \in 1..Len(ws) : ws[i].id = ws[j].id => i = j

\* the error is one parseWorkInput throws
IsValidationError(thrown) ==
    thrown # Undefined /\ Value(thrown)[1] = "Work input invalid for "

\* the field path the error names
PathOf(thrown) == Value(thrown)[2]

EmptyAfterTrim(s) == trim(s) = <<>>

\* a supplied id is empty after trimming
EmptyId(input) == input.id # Undefined /\ EmptyAfterTrim(Value(input.id))

StringFields == {"id", "displayTitle", "mediaTypeKey"}

\* the call raised no validation error for a string field of its input
StringsAccepted(l) == ~(IsValidationError(l.thrown) /\ PathOf(l.thrown) \in StringFields)

\* the store and the changelog in which a call ends
StoreOf(m) == [i \in 1..Len(m.works) |-> m.heap[m.works[i].ref]]

LogOf(m) == [i \in 1..Len(m.changeLog) |-> Deref(m.heap, m.changeLog[i])]

\* the call that ended in m got from the providers what the call l got
SameDraws(m, l) == m.idDraws = l.idDraws /\ m.nowDraws = l.nowDraws

\* the values a provider returned to the call, in the order of its calls
Drawn(draws) == [i \in 1..Len(draws) |-> draws[i].value]

\* the last entry of the changelog
LastEntry(log) == log[Len(log)]

Reads == {"getWork", "listWorks", "getChangeLog"}

\* what the read the caller has just made returns when it is made again
ReadAgain(l) ==
    LET m == IF l.op = "getWork" THEN getWork(Machine(held), l.arg)
             ELSE IF l.op = "listWorks" THEN listWorks(Machine(held))
             ELSE getChangeLog(Machine(held))
    IN  [returned |-> m.returned, thrown |-> m.thrown,
         result |-> {Deref(m.heap, r) : r \in m.ret}]

\* the last accepted call about id is an addWork
Live(id) ==
    \E k \in 1..Len(accepted) :
        /\ accepted[k] = [op |-> "addWork", id |-> id]
        /\ \A j \in (k + 1)..Len(accepted) : accepted[j].id # id

Occurrences(ws, w) == Cardinality({i \in 1..Len(ws) : ws[i] = w})

\* the keys of the schema, in its order
FieldOrder == <<"id", "displayTitle", "mediaTypeKey", "createdAt", "updatedAt">>

\* the input violates the constraint of the field
Violates(input, field) ==
    CASE field = "id" -> EmptyId(input)
      [] field = "displayTitle" -> EmptyAfterTrim(input.displayTitle)
      [] field = "mediaTypeKey" -> EmptyAfterTrim(input.mediaTypeKey)
      [] field = "createdAt" -> input.createdAt = Some(NaN)
      [] field = "updatedAt" -> input.updatedAt = Some(NaN)

Violated(input) == {i \in 1..Len(FieldOrder) : Violates(input, FieldOrder[i])}

FirstViolated(input) ==
    FieldOrder[CHOOSE i \in Violated(input) : \A j \in Violated(input) : i <= j]

\* the changelog entries whose payload refers to id
EntriesAbout(id) == {k \in 1..Len(LogView) : LogView[k].payloadJson.work.id = id}

\* the last of these
LastAbout(id) == LogView[CHOOSE k \in EntriesAbout(id) : \A j \in EntriesAbout(id) : j <= k]

\* the ids of the works the accepted calls leave, in the order of the
\* addWork calls that inserted them
RECURSIVE Inserted(_)
Inserted(acc) ==
    IF acc = <<>> THEN <<>>
    ELSE LET before == Inserted(SubSeq(acc, 1, Len(acc) - 1))
             call == acc[Len(acc)]
         IN  IF call.op = "addWork" THEN Append(before, call.id)
             ELSE SelectSeq(before, LAMBDA id : id # call.id)

IdsOf(ws) == [i \in 1..Len(ws) |-> ws[i].id]

----------------------------------------------------------------------------
\* The claims

\* C1: after any sequence of addWork and removeWork calls on a fresh
\* Collection, getChangeLog() returns one entry per accepted call, the k-th
\* with the opType of the k-th accepted call; rejected calls add no entry.
ChangelogCompleteC1 ==
    /\ ReadsShowViews
    /\ Len(LogView) = Len(accepted)
    /\ \A k \in 1..Len(accepted) : LogView[k].opType = OpTypeOf(accepted[k].op)

\* an accepted addWork, an accepted removeWork, then a rejected call
WitnessC1 ==
    /\ Len(accepted) = 2
    /\ accepted[1].op = "addWork"
    /\ accepted[2].op = "removeWork"
    /\ calls = 3
    /\ last.op \in Mutating
    /\ last.thrown # Undefined

\* C2: every addWork or removeWork call either completes (the store changes
\* and the changelog gains exactly one entry) or throws and leaves the store
\* and the changelog as they were, whatever made it throw.
NoPartialMutationC2 ==
    [][Called("addWork") \/ Called("removeWork") =>
        IF last'.thrown = Undefined
        THEN /\ ListView' # ListView
             /\ Len(LogView') = Len(LogView) + 1
             /\ IsPrefix(LogView, LogView')
        ELSE /\ ListView' = ListView
             /\ LogView' = LogView]_vars

\* C3: what getChangeLog() returns at one point is a prefix of what it
\* returns at any later point, whatever the clock returns.
AppendOnlyC3 == [][IsPrefix(LogView, LogView')]_vars

\* two entries whose timestamps go backwards
WitnessC3 ==
    /\ Len(LogView) >= 2
    /\ LogView[1].timestamp > LogView[2].timestamp

\* C4: an addWork whose resolved id is the id of a work in the store throws
\* "Work with id <id> already exists." and leaves the store and the
\* changelog unchanged.
DuplicateRejectedC4 ==
    [][Called("addWork") /\ ResolvedId(last') \cap StoredIds # {} =>
        /\ \A id \in IdValues :
              id \in ResolvedId(last') => last'.thrown = Some(AlreadyExists(id))
        /\ ListView' = ListView
        /\ LogView' = LogView]_vars

\* a generated id collides with a stored work
WitnessC4 ==
    /\ last.op = "addWork"
    /\ last.arg.id = Undefined
    /\ last.thrown = Some(AlreadyExists(<<"a">>))
    /\ <<"a">> \in StoredIds

\* C5 as stated, in the runs in which every call was accepted: no id is the
\* subject of two accepted addWork calls (the second one would have failed
\* with the duplicate-id error).
UsedOnceC5 ==
    calls = Len(accepted) =>
        \A i, j \in 1..Len(accepted) :
            i < j /\ accepted[i].op = "addWork" /\ accepted[j].op = "addWork"
                => accepted[i].id # accepted[j].id

\* C5 amended: an addWork whose id was used by an earlier accepted addWork
\* and is still in the store fails with the duplicate-id error and alters
\* nothing; an accepted addWork has an id that was not in the store, and no
\* two works of the store share an id.
StoredIdRejectedC5 ==
    [][Called("addWork") =>
        /\ ResolvedId(last') \cap UsedIds \cap StoredIds # {} =>
              /\ \A id \in IdValues :
                    id \in ResolvedId(last') => last'.thrown = Some(AlreadyExists(id))
              /\ ListView' = ListView
              /\ LogView' = LogView
              /\ accepted' = accepted
        /\ last'.thrown = Undefined =>
              /\ ResolvedId(last') \cap StoredIds = {}
              /\ Distinct(ListView')]_vars

\* the id of an accepted addWork, still stored, is rejected
WitnessC5 ==
    /\ last.op = "addWork"
    /\ last.thrown = Some(AlreadyExists(<<"a">>))
    /\ <<"a">> \in UsedIds \cap StoredIds
    /\ Len(ListView) = 2

\* C6: removeWork(id) with an id that is not in the store throws "Work with
\* id <id> does not exist.", appends no entry, leaves the store unchanged and
\* calls neither idFactory nor now.
MissingRemoveC6 ==
    [][Called("removeWork") /\ last'.arg \notin StoredIds =>
        /\ last'.thrown = Some(DoesNotExist(last'.arg))
        /\ ListView' = ListView
        /\ LogView' = LogView
        /\ last'.idDraws = <<>>
        /\ last'.nowDraws = <<>>]_vars

\* an id that differs from a stored one by a leading blank is missing
WitnessC6 ==
    /\ last.op = "removeWork"
    /\ last.arg = <<" ", "a">>
    /\ last.thrown = Some(DoesNotExist(<<" ", "a">>))
    /\ <<"a">> \in StoredIds
    /\ LogView # <<>>

\* C7: every Work in the store, and every Work returned, has
\* createdAt <= updatedAt.
TimestampOrderC7 ==
    /\ \A i \in 1..Len(ListView) : ListView[i].createdAt <= ListView[i].updatedAt
    /\ last.op \in Mutating \cup {"getWork"} =>
          \A w \in last.result : w.createdAt <= w.updatedAt

\* C8: no object the caller got from a call or passed to addWork is an
\* object the Collection reaches, and an assignment to a field of such an
\* object changes nothing of what getWork, listWorks and getChangeLog return.
IsolationC8 ==
    [][/\ held' \cap DOMAIN heap' = {}
       /\ last'.op = "mutate" =>
             /\ ListView' = ListView
             /\ LogView' = LogView
             /\ \A id \in LookupIds : GetView(id)' = GetView(id)]_vars

\* the caller has assigned to an entry, payload or work of getChangeLog()
\* while the store and the changelog hold something
WitnessC8 ==
    /\ last.op = "mutate"
    /\ Cardinality(held) >= 4
    /\ ListView # <<>>
    /\ LogView # <<>>

TimestampDefaultC10 ==
    [][Called("addWork") /\ last'.thrown = Undefined =>
        \A w \in last'.result :
            /\ ListView' = Append(ListView, w)
            /\ last'.arg.createdAt = Undefined /\ last'.arg.updatedAt = Undefined =>
                  /\ w.createdAt = last'.nowDraws[1].value
                  /\ w.updatedAt = last'.nowDraws[1].value
            /\ last'.arg.createdAt # Undefined /\ last'.arg.updatedAt = Undefined =>
                  /\ w.createdAt = Value(last'.arg.createdAt)
                  /\ w.updatedAt = Value(last'.arg.createdAt)
            /\ last'.arg.updatedAt # Undefined => w.updatedAt = Value(last'.arg.updatedAt)
            /\ last'.arg.createdAt # Undefined => w.createdAt = Value(last'.arg.createdAt)]_vars

\* createdAt alone is supplied and differs from the clock
WitnessC10 ==
    /\ last.op = "addWork"
    /\ last.thrown = Undefined
    /\ last.arg.createdAt = Some(2)
    /\ last.arg.updatedAt = Undefined
    /\ last.nowDraws[1].value = 1
    /\ last.result # Undefined

\* C11: an addWork whose displayTitle or mediaTypeKey is empty after
\* trimming, or whose supplied id is empty after trimming, throws a
\* validation error, leaves the store and the changelog unchanged and calls
\* neither idFactory nor now.
ValidationFailureC11 ==
    [][/\ Called("addWork")
       /\ \/ EmptyAfterTrim(last'.arg.displayTitle)
          \/ EmptyAfterTrim(last'.arg.mediaTypeKey)
          \/ EmptyId(last'.arg)
       => /\ IsValidationError(last'.thrown)
          /\ ListView' = ListView
          /\ LogView' = LogView
          /\ last'.idDraws = <<>>
          /\ last'.nowDraws = <<>>]_vars

\* an input without id and with a blank mediaTypeKey is rejected while the
\* store holds a work
WitnessC11 ==
    /\ last.op = "addWork"
    /\ last.arg.id = Undefined
    /\ ~EmptyAfterTrim(last.arg.displayTitle)
    /\ EmptyAfterTrim(last.arg.mediaTypeKey)
    /\ IsValidationError(last.thrown)
    /\ ListView # <<>>

\* C12 as stated: addWork accepts the string fields of its input exactly
\* when displayTitle and mediaTypeKey are each non-empty after trimming.
StringsAcceptedAsStatedC12 ==
    [][Called("addWork") =>
        (StringsAccepted(last') <=>
            /\ ~EmptyAfterTrim(last'.arg.displayTitle)
            /\ ~EmptyAfterTrim(last'.arg.mediaTypeKey))]_vars

\* C12 amended: addWork accepts the string fields of its input exactly when
\* displayTitle and mediaTypeKey are each non-empty after trimming and the
\* id, when supplied, is non-empty after trimming; on acceptance the stored
\* and returned displayTitle and mediaTypeKey are the trimmed values, and the
\* work.create payload carries the same trimmed values.
TrimThenValidateC12 ==
    [][Called("addWork") =>
        /\ StringsAccepted(last') <=>
              /\ ~EmptyAfterTrim(last'.arg.displayTitle)
              /\ ~EmptyAfterTrim(last'.arg.mediaTypeKey)
              /\ ~EmptyId(last'.arg)
        /\ last'.thrown = Undefined =>
              /\ last'.result # Undefined
              /\ \A w \in last'.result :
                    /\ w.displayTitle = trim(last'.arg.displayTitle)
                    /\ w.mediaTypeKey = trim(last'.arg.mediaTypeKey)
                    /\ ListView' = Append(ListView, w)
                    /\ Len(LogView') = Len(LogView) + 1
                    /\ LogView'[Len(LogView')].opType = "work.create"
                    /\ LogView'[Len(LogView')].payloadJson = [work |-> w]]_vars

\* a displayTitle with blanks on both sides has been accepted and stored
\* without them
WitnessC12 ==
    /\ last.op = "addWork"
    /\ last.thrown = Undefined
    /\ last.arg.displayTitle = <<" ", "t", " ">>
    /\ ListView # <<>>
    /\ ListView[Len(ListView)].displayTitle = <<"t">>
    /\ LogView[Len(LogView)].payloadJson.work.displayTitle = <<"t">>

ReadsPureC15 ==
    [][/\ \A op \in Reads : Called(op) =>
            /\ ListView' = ListView
            /\ LogView' = LogView
            /\ accepted' = accepted
            /\ last'.returned
            /\ last'.thrown = Undefined
            /\ last'.idDraws = <<>>
            /\ last'.nowDraws = <<>>
       /\ last.op \in Reads =>
            /\ ReadAgain(last).result = last.result
            /\ ReadAgain(last).thrown = Undefined]_vars

\* getChangeLog() has returned two entries, after reads of a store that
\* holds a work
WitnessC15 ==
    /\ last.op = "getChangeLog"
    /\ \E log \in last.result : Len(log) = 2
    /\ ReadAgain(last).result = last.result
    /\ ListView # <<>>

\* C16: after an accepted addWork has returned w, getWork(w.id) is w and
\* listWorks() holds w exactly once, and this stays so through every step
\* until a removeWork(w.id) is accepted; getWork(id) returns undefined
\* exactly when id is not in the store.
RoundTripC16 ==
    [][/\ Called("addWork") /\ last'.thrown = Undefined =>
            \A w \in last'.result :
                /\ GetView(w.id)' = Some(w)
                /\ Occurrences(ListView', w) = 1
       /\ \A id \in IdValues : Live(id) /\ Live(id)' =>
            /\ GetView(id)' = GetView(id)
            /\ \E w \in GetView(id)' : Occurrences(ListView', w) = 1
       /\ Called("getWork") =>
            (last'.result = Undefined <=> last'.arg \notin StoredIds)]_vars

\* C17: an addWork whose input violates several constraints throws an error
\* "Work input invalid for <path>: <message>" that names one field path, the
\* first violated one in the order id, displayTitle, mediaTypeKey, createdAt,
\* updatedAt.
FailFastC17 ==
    [][Called("addWork") /\ Violated(last'.arg) # {} =>
        /\ IsValidationError(last'.thrown)
        /\ Len(Value(last'.thrown)) = 4
        /\ PathOf(last'.thrown) = FirstViolated(last'.arg)
        /\ Value(last'.thrown)[3] = ": "
        /\ Value(last'.thrown)[4] =
              IF PathOf(last'.thrown) \in StringFields THEN TooSmall ELSE NotANumber]_vars

\* displayTitle, mediaTypeKey and updatedAt are violated at once and the
\* error names displayTitle
WitnessC17 ==
    /\ last.op = "addWork"
    /\ Violated(last.arg) = {2, 3, 5}
    /\ IsValidationError(last.thrown)
    /\ PathOf(last.thrown) = "displayTitle"

\* C18: an id is in the store exactly when the last changelog entry whose
\* payload refers to it is a work.create entry, and the stored Work is then
\* the work of that entry's payload; an id whose last entry is work.remove,
\* or that has no entry, is not in the store.
StoreIsReplayC18 ==
    \A id \in IdValues :
        /\ id \in StoredIds <=>
              EntriesAbout(id) # {} /\ LastAbout(id).opType = "work.create"
        /\ id \in StoredIds => GetView(id) = Some(LastAbout(id).payloadJson.work)

\* C19: listWorks() returns the stored works in the order in which their
\* accepted addWork calls inserted them: an accepted addWork puts its work
\* last, an accepted removeWork takes its work out and keeps the order of
\* the others, so that a work added again after its removal is last.
ListOrderC19 ==
    [][/\ Called("addWork") /\ last'.thrown = Undefined =>
            \A w \in last'.result : ListView' = Append(ListView, w)
       /\ Called("removeWork") /\ last'.thrown = Undefined =>
            ListView' = SelectSeq(ListView, LAMBDA w : w.id # last'.arg)
       /\ Called("listWorks") => last'.result = Some(ListView)
       /\ calls' = Len(accepted') => IdsOf(ListView') = Inserted(accepted')]_vars

\* a was added before b, removed and added again: listWorks() returns b, a
WitnessC19 ==
    /\ last.op = "listWorks"
    /\ \E ws \in last.result : IdsOf(ws) = <<<<"b">>, <<"a">>>>
    /\ accepted = <<[op |-> "addWork", id |-> <<"a">>], [op |-> "addWork", id |-> <<"b">>],
                    [op |-> "removeWork", id |-> <<"a">>], [op |-> "addWork", id |-> <<"a">>]>>

\* C20: addWork trims a supplied id before using it: the duplicate check,
\* the key of the store, the id of the returned Work and the id in the
\* changelog payload are the trimmed id, so an id that differs from a stored
\* one only by surrounding whitespace is rejected as a duplicate; removeWork
\* and getWork compare their argument as it is.
IdTrimmedC20 ==
    [][/\ \A id \in IdValues :
            /\ Called("addWork")
            /\ Violated(last'.arg) = {}
            /\ last'.arg.id # Undefined
            /\ id = trim(Value(last'.arg.id))
            =>
            /\ id \in StoredIds =>
                  /\ last'.thrown = Some(AlreadyExists(id))
                  /\ ListView' = ListView
                  /\ LogView' = LogView
            /\ last'.thrown = Undefined =>
                  \A w \in last'.result :
                      /\ w.id = id
                      /\ works'[Len(works')].key = id
                      /\ GetView(id)' = Some(w)
                      /\ LastEntry(LogView').payloadJson.work.id = id
       /\ Called("removeWork") =>
            (last'.thrown = Some(DoesNotExist(last'.arg)) <=> last'.arg \notin StoredIds)
       /\ Called("getWork") =>
            /\ last'.result = Undefined <=> last'.arg \notin StoredIds
            /\ \A w \in last'.result : w.id = last'.arg]_vars

\* the id " a" is rejected as a duplicate of the stored id "a", which had
\* itself been supplied as "a"
WitnessC20 ==
    /\ last.op = "addWork"
    /\ last.arg.id = Some(<<" ", "a">>)
    /\ last.thrown = Some(AlreadyExists(<<"a">>))
    /\ StoredIds = {<<"a">>}
    /\ Len(LogView) = 1
    /\ LogView[1].id = <<"b">>

====
